---- MODULE Spec2Model ----
(***************************************************************************)
(* Land-degradation indicator 15.3.1: the productivity sub-indicators      *)
(* (trajectory, performance, state), their fusion, the annual integration, *)
(* the sensor harmonization and the soil-organic-carbon model, as state    *)
(* machines over single pixels and small rasters.                          *)
(*                                                                         *)
(* Numbers are fixed point.  z-scores are in hundredths (1.96 is 196).     *)
(* A raster cell is a record [ok, v]: ok = FALSE is a masked cell.         *)
(* Each component has one record variable; a specification runs one        *)
(* component and leaves the others idle.                                   *)
(***************************************************************************)
EXTENDS Integers, Sequences, FiniteSets, TLC

VARIABLES traj, fuse, perf, st, soc, harm, integ, run, trend

vars == <<traj, fuse, perf, st, soc, harm, integ, run, trend>>

(***************************************************************************)
(* Raster cells                                                            *)
(***************************************************************************)
Val(x) == [ok |-> TRUE, v |-> x]
Masked == [ok |-> FALSE, v |-> 0]

\* ee.Image.where(test, value): the cell takes value where test holds and
\* keeps its own value elsewhere.
Where(img, test, value) == IF test THEN value ELSE img

(***************************************************************************)
(* Reducers of the raster algebra                                          *)
(***************************************************************************)
RECURSIVE Insert(_, _)
Insert(x, s) ==
    IF s = <<>> THEN <<x>>
    ELSE IF x <= Head(s) THEN <<x>> \o s
    ELSE <<Head(s)>> \o Insert(x, Tail(s))

RECURSIVE Sort(_)
Sort(s) == IF s = <<>> THEN <<>> ELSE Insert(Head(s), Sort(Tail(s)))

RECURSIVE SumSeq(_)
SumSeq(s) == IF s = <<>> THEN 0 ELSE Head(s) + SumSeq(Tail(s))

\* ee.Reducer.percentile([q]) of the values s (not empty), times 100: linear
\* interpolation between the two closest ranks of the sorted values
PercentileX100(s, q) ==
    LET x == Sort(s)
        h == q * (Len(x) - 1)
        i == h \div 100
        r == h % 100
    IN  IF r = 0 THEN 100 * x[i + 1]
        ELSE 100 * x[i + 1] + r * (x[i + 2] - x[i + 1])

\* the values f[p] of the pixels p of 1..n that satisfy keep, as a sequence
RECURSIVE Collect(_, _, _)
Collect(f, keep, n) ==
    IF n = 0 THEN <<>>
    ELSE IF n \in keep THEN Append(Collect(f, keep, n - 1), f[n])
    ELSE Collect(f, keep, n - 1)

(***************************************************************************)
(* Exact fractions <<numerator, denominator>>, denominator > 0             *)
(***************************************************************************)
RECURSIVE GCD(_, _)
GCD(a, b) == IF b = 0 THEN a ELSE GCD(b, a % b)

AbsInt(x) == IF x < 0 THEN -x ELSE x

Rat(n, d) ==
    LET g == GCD(AbsInt(n), AbsInt(d))
        sgn == IF d < 0 THEN -1 ELSE 1
    IN  <<sgn * (n \div g), sgn * (d \div g)>>

\* sums over the least common denominator and products of reduced factors
\* keep the intermediate numbers small
RatAdd(a, b) ==
    LET g == GCD(a[2], b[2])
    IN  Rat(a[1] * (b[2] \div g) + b[1] * (a[2] \div g), (a[2] \div g) * b[2])
RatSub(a, b) == RatAdd(a, <<-b[1], b[2]>>)
RatMul(a, b) ==
    LET x == Rat(a[1], b[2])
        y == Rat(b[1], a[2])
    IN  Rat(x[1] * y[1], x[2] * y[2])
RatLt(a, b) == a[1] * b[2] < b[1] * a[2]
RatGt(a, b) == RatLt(b, a)

\* cell arithmetic: a masked operand masks the result; ee.Image.divide
\* returns 0 for a division by 0
CellSub(a, b) == IF a.ok /\ b.ok THEN Val(RatSub(a.v, b.v)) ELSE Masked
CellMul(a, b) == IF a.ok /\ b.ok THEN Val(RatMul(a.v, b.v)) ELSE Masked
CellDiv(a, b) ==
    IF a.ok /\ b.ok
    THEN IF b.v[1] # 0 THEN Val(Rat(a.v[1] * b.v[2], a.v[2] * b.v[1]))
         ELSE Val(Rat(0, 1))
    ELSE Masked

\* ee.Image.where on cells: a masked input is left alone, and where the test
\* or the value is masked the input is kept
WhereCell(input, test, value) ==
    IF input.ok /\ test.ok /\ test.v /\ value.ok THEN value ELSE input

(***************************************************************************)
(* Trajectory: productivity_trajectory (component/scripts/productivity.py) *)
(***************************************************************************)
\* largest |z| (hundredths) an estimator returns in the model
ZMax == 200

\* 1.96 in hundredths
Z196 == 196

trajectories == <<"ndvi_trend", "p_restrend", "s_restrend", "ue_trend">>

\* the method names a configuration may carry: the declared ones and one other
MethodNames == {trajectories[i] : i \in 1..4} \cup {"other"}

\* what an estimator (ndvi_trend, restrend, rain_use_efficiency_trend) returns
\* for one pixel: tau * z_coefficient(n), or a masked cell
ZScores == {Val(z) : z \in (-ZMax)..ZMax} \cup {Masked}

TrajIdle == [pc |-> "idle", method |-> "", bound |-> FALSE, z |-> Masked,
             estimator |-> "", class |-> 0, err |-> ""]

\* the entry point is called with the configured method
TrajStart == {[TrajIdle EXCEPT !.pc = "dispatch", !.method = m] : m \in MethodNames}

\* lines 22-33: the if / elif / elif chain; there is no else branch, so any
\* other method leaves z_score unassigned and control goes on to line 36
SelectEstimator(method) ==
    IF method = trajectories[1] THEN "ndvi_trend"
    ELSE IF method = trajectories[2] THEN "restrend"
    ELSE IF method = trajectories[4] THEN "rain_use_efficiency_trend"
    ELSE ""

Dispatch ==
    /\ traj.pc = "dispatch"
    /\ LET e == SelectEstimator(traj.method) IN
         IF e # ""
         THEN \E z \in ZScores :
                 traj' = [traj EXCEPT !.pc = "classify", !.estimator = e,
                                      !.bound = TRUE, !.z = z]
         ELSE traj' = [traj EXCEPT !.pc = "classify"]
    /\ UNCHANGED <<fuse, perf, st, soc, harm, integ, run, trend>>

\* lines 36-41: ee.Image(0).where(z < -1.96, 1).where(z > 1.96, 3)
\*                         .where(z > -1.96 and z < 1.96, 2)
\* a masked z makes every test masked, and the constant 0 is kept
TrajectoryClass(z) ==
    LET i0 == 0
        i1 == Where(i0, z.ok /\ z.v < -Z196, 1)
        i2 == Where(i1, z.ok /\ z.v > Z196, 3)
        i3 == Where(i2, z.ok /\ z.v > -Z196 /\ z.v < Z196, 2)
    IN  i3

\* line 37 reads z_score: unassigned, Python raises UnboundLocalError there
Classify ==
    /\ traj.pc = "classify"
    /\ IF traj.bound
       THEN traj' = [traj EXCEPT !.pc = "done", !.class = TrajectoryClass(traj.z)]
       ELSE traj' = [traj EXCEPT !.pc = "error", !.err = "UnboundLocalError"]
    /\ UNCHANGED <<fuse, perf, st, soc, harm, integ, run, trend>>

TrajNext == Dispatch \/ Classify

(***************************************************************************)
(* Fusion: productivity_final                                              *)
(***************************************************************************)
\* the 18 where() rows of lines 255-272, in source order
Row(t, s, p, c) == [t |-> t, s |-> s, p |-> p, c |-> c]

\* the table with the row for (2, 2, 1) testing performance 2 a second time
FinalTableRepeatedRow ==
    << Row(3, 3, 2, 3), Row(3, 3, 1, 3), Row(3, 2, 2, 3), Row(3, 2, 1, 3),
       Row(3, 1, 2, 3), Row(3, 1, 1, 1), Row(2, 3, 2, 2), Row(2, 3, 1, 2),
       Row(2, 2, 2, 2), Row(2, 2, 2, 1), Row(2, 1, 2, 1), Row(2, 1, 1, 1),
       Row(1, 3, 2, 1), Row(1, 3, 1, 1), Row(1, 2, 2, 1), Row(1, 2, 1, 1),
       Row(1, 1, 2, 1), Row(1, 1, 1, 1) >>

\* the table with the row (3, 1, 1) softened by one step only
FinalTableSoftened ==
    << Row(3, 3, 2, 3), Row(3, 3, 1, 3), Row(3, 2, 2, 3), Row(3, 2, 1, 3),
       Row(3, 1, 2, 3), Row(3, 1, 1, 2), Row(2, 3, 2, 2), Row(2, 3, 1, 2),
       Row(2, 2, 2, 2), Row(2, 2, 1, 1), Row(2, 1, 2, 1), Row(2, 1, 1, 1),
       Row(1, 3, 2, 1), Row(1, 3, 1, 1), Row(1, 2, 2, 1), Row(1, 2, 1, 1),
       Row(1, 1, 2, 1), Row(1, 1, 1, 1) >>

FinalTable ==
    << Row(3, 3, 2, 3), Row(3, 3, 1, 3), Row(3, 2, 2, 3), Row(3, 2, 1, 3),
       Row(3, 1, 2, 3), Row(3, 1, 1, 1), Row(2, 3, 2, 2), Row(2, 3, 1, 2),
       Row(2, 2, 2, 2), Row(2, 2, 1, 1), Row(2, 1, 2, 1), Row(2, 1, 1, 1),
       Row(1, 3, 2, 1), Row(1, 3, 1, 1), Row(1, 2, 2, 1), Row(1, 2, 1, 1),
       Row(1, 1, 2, 1), Row(1, 1, 1, 1) >>

Matches(r, t, p, s) == r.t = t /\ r.s = s /\ r.p = p

MatchingRows(t, p, s) ==
    {i \in 1..Len(FinalTable) : Matches(FinalTable[i], t, p, s)}

\* the chain of where() calls applied to ee.Image(0), first row first
RECURSIVE ApplyRows(_, _, _, _, _)
ApplyRows(img, i, t, p, s) ==
    IF i > Len(FinalTable) THEN img
    ELSE ApplyRows(Where(img, Matches(FinalTable[i], t, p, s), FinalTable[i].c),
                   i + 1, t, p, s)

productivity_final(t, p, s) == ApplyRows(0, 1, t, p, s)

\* class values the three classifiers write: 0 is the constant the where()
\* chains start from (trajectory, performance) or the uint8 cast of the
\* 16-bit no-data value (state)
TrajectoryValues == 0..3
StateValues == 0..3
PerformanceValues == 0..2

FuseIdle == [pc |-> "idle", trajectory |-> 0, performance |-> 0, state |-> 0,
             productivity |-> 0, z |-> Masked, ratio |-> Masked,
             classes_change |-> 0]

FuseStart == [FuseIdle EXCEPT !.pc = "trajectory"]

\* the three class rasters arrive one after the other, then are fused
FuseTrajectory ==
    /\ fuse.pc = "trajectory"
    /\ \E t \in TrajectoryValues :
          fuse' = [fuse EXCEPT !.pc = "performance", !.trajectory = t]
    /\ UNCHANGED <<traj, perf, st, soc, harm, integ, run, trend>>

FusePerformance ==
    /\ fuse.pc = "performance"
    /\ \E p \in PerformanceValues :
          fuse' = [fuse EXCEPT !.pc = "state", !.performance = p]
    /\ UNCHANGED <<traj, perf, st, soc, harm, integ, run, trend>>

FuseState ==
    /\ fuse.pc = "state"
    /\ \E s \in StateValues :
          fuse' = [fuse EXCEPT !.pc = "final", !.state = s]
    /\ UNCHANGED <<traj, perf, st, soc, harm, integ, run, trend>>

FuseFinal ==
    /\ fuse.pc = "final"
    /\ fuse' = [fuse EXCEPT !.pc = "done",
                  !.productivity = productivity_final(fuse.trajectory,
                                                      fuse.performance,
                                                      fuse.state)]
    /\ UNCHANGED <<traj, perf, st, soc, harm, integ, run, trend>>

FuseNext == FuseTrajectory \/ FusePerformance \/ FuseState \/ FuseFinal

(***************************************************************************)
(* Performance: productivity_performance                                   *)
(***************************************************************************)
\* pixels of the raster
NPix == 3

\* largest mean vegetation index of a pixel, in index units
MaxVI == 3

Pixels == 1..NPix

\* soil taxonomy classes and reclassified land cover classes in the rasters
SoilTaxa == {1, 2}
LcClasses == {1, 2}

PerfIdle == [pc |-> "idle", ndvi_mean |-> <<>>, soil |-> <<>>, lc |-> <<>>,
             ids |-> {}, p90 |-> <<>>, ratio |-> <<>>, class |-> <<>>]

\* the rasters the entry point reads: mean index, soil class and land cover
\* class of every pixel
PerfStart ==
    [pc : {"reduce"}, ndvi_mean : [Pixels -> 0..MaxVI],
     soil : [Pixels -> SoilTaxa], lc : [Pixels -> LcClasses], ids : {{}},
     p90 : {<<>>}, ratio : {<<>>}, class : {<<>>}]

\* line 93: soil_tax_usda.multiply(100).add(lc_reclass)
similar_ecoregions(so, l) == [p \in Pixels |-> so[p] * 100 + l[p]]

\* line 88: mask = ndvi_mean.neq(0)
PerfMask(m) == {p \in Pixels : m[p] # 0}

\* lines 96-112: the grouped reducer; a group exists for every zone code
\* that has an unmasked pixel
GroupIds(m, zone) == {zone[p] : p \in PerfMask(m)}

\* the percentile of a zone over all its pixels, the masked ones included
GroupP90Unmasked(m, zone, code) ==
    PercentileX100(Collect(m, {p \in Pixels : zone[p] = code}, NPix), 90)

GroupP90(m, zone, code) ==
    PercentileX100(Collect(m, {p \in PerfMask(m) : zone[p] = code}, NPix), 90)

\* lines 99-115
PerfReduce ==
    /\ perf.pc = "reduce"
    /\ LET zone == similar_ecoregions(perf.soil, perf.lc)
           ids == GroupIds(perf.ndvi_mean, zone)
       IN  perf' = [perf EXCEPT !.pc = "classify", !.ids = ids,
                      !.p90 = [c \in ids |-> GroupP90(perf.ndvi_mean, zone, c)]]
    /\ UNCHANGED <<traj, fuse, st, soc, harm, integ, run, trend>>

\* line 115: remap(ids, percentile): a code that is not in ids is masked;
\* line 118: ndvi_mean.divide(ecoregion_perc90), as the pair
\* <<numerator, denominator>> (the percentile is held times 100)
observed_ratio(m, zone, ids, p90, p) ==
    IF zone[p] \in ids /\ p90[zone[p]] # 0
    THEN Val(<<100 * m[p], p90[zone[p]]>>)
    ELSE Masked

\* ratio >= 1/2 and ratio <= 1/2, for a positive denominator
RatioGte05(r) == 2 * r[1] >= r[2]
RatioLte05(r) == 2 * r[1] <= r[2]

\* lines 122-126: ee.Image(0).where(ratio >= 0.5, 2).where(ratio <= 0.5, 1)
PerformanceClass(r) ==
    LET i0 == 0
        i1 == Where(i0, r.ok /\ RatioGte05(r.v), 2)
        i2 == Where(i1, r.ok /\ RatioLte05(r.v), 1)
    IN  i2

PerfClassify ==
    /\ perf.pc = "classify"
    /\ LET zone == similar_ecoregions(perf.soil, perf.lc)
           ratio == [p \in Pixels |->
                       observed_ratio(perf.ndvi_mean, zone, perf.ids, perf.p90, p)]
       IN  perf' = [perf EXCEPT !.pc = "done", !.ratio = ratio,
                      !.class = [p \in Pixels |-> PerformanceClass(ratio[p])]]
    /\ UNCHANGED <<traj, fuse, st, soc, harm, integ, run, trend>>

PerfNext == PerfReduce \/ PerfClassify

(***************************************************************************)
(* State: productivity_state, for one pixel                                *)
(***************************************************************************)
\* years of the annual series; model.start is year 1, model.end the last
StYears == 4

\* the 16-bit no-data value pm.int_16_min
Int16Min == -32768

\* the threshold of lines 231-233, in index units
MeanDiffMax == 100

\* ee.Filter.rangeContains('year', a, b)
RangeContains(a, b) == {y \in 1..StYears : a <= y /\ y <= b}

StIdle == [pc |-> "idle", ndvi |-> <<>>, baseline_end |-> 0, target_start |-> 0,
           extended |-> <<>>, perc |-> <<>>, baseline_class |-> 0, target_class |-> 0,
           classes_change |-> 0, state |-> 0]

\* the annual series of the pixel and the two windows of the configuration
StStart ==
    [pc : {"percentiles"}, ndvi : [1..StYears -> 0..MaxVI],
     baseline_end : 1..StYears, target_start : 1..StYears, extended : {<<>>},
     perc : {<<>>}, baseline_class : {0}, target_class : {0},
     classes_change : {0}, state : {0}]

\* the annual values of a window, as a sequence
WindowValues(n, a, b) == Collect(n, RangeContains(a, b), StYears)

\* lines 150-153: percentile([0, 100]) of the baseline years
Ndvi_p0(n, be) == Sort(WindowValues(n, 1, be))[1]
Ndvi_p100(n, be) == LET x == Sort(WindowValues(n, 1, be)) IN x[Len(x)]

\* an extension by a tenth of the range instead of a twentieth
baseline_ndvi_extended_tenth(n, be) ==
    LET p0 == Ndvi_p0(n, be)
        p100 == Ndvi_p100(n, be)
        images == [i \in 1..Len(WindowValues(n, 1, be)) |->
                      20 * WindowValues(n, 1, be)[i]]
    IN  images \o <<20 * p0 - 2 * (p100 - p0)>> \o <<20 * p100 + 2 * (p100 - p0)>>

\* lines 167-181, every value times 20: the baseline years and the two added
\* bands, p0 - 0.05 * (p100 - p0) and p100 + 0.05 * (p100 - p0)
baseline_ndvi_extended(n, be) ==
    LET p0 == Ndvi_p0(n, be)
        p100 == Ndvi_p100(n, be)
        images == [i \in 1..Len(WindowValues(n, 1, be)) |->
                      20 * WindowValues(n, 1, be)[i]]
    IN  images \o <<20 * p0 - (p100 - p0)>> \o <<20 * p100 + (p100 - p0)>>

\* lines 184-185: the deciles p10 .. p100, each times 2000
baseline_ndvi_perc(n, be) ==
    [k \in 1..10 |-> PercentileX100(baseline_ndvi_extended(n, be), 10 * k)]

StatePercentiles ==
    /\ st.pc = "percentiles"
    /\ st' = [st EXCEPT !.pc = "classes",
                !.extended = baseline_ndvi_extended(st.ndvi, st.baseline_end),
                !.perc = baseline_ndvi_perc(st.ndvi, st.baseline_end)]
    /\ UNCHANGED <<traj, fuse, perf, soc, harm, integ, run, trend>>

\* lines 188-198: the mean of a window, as <<sum, count>>
WindowMean(n, a, b) ==
    <<SumSeq(WindowValues(n, a, b)), Len(WindowValues(n, a, b))>>

\* a test that also holds where the mean equals the decile
MeanGte(m, d) == 2000 * m[1] >= d * m[2]

\* mean <= decile and mean > decile, the decile held times 2000
MeanLte(m, d) == 2000 * m[1] <= d * m[2]
MeanGt(m, d) == 2000 * m[1] > d * m[2]

\* lines 201-211 and 214-224: the where() chain over the deciles
RECURSIVE GtChain(_, _, _, _)
GtChain(img, m, perc, k) ==
    IF k > 9 THEN img
    ELSE GtChain(Where(img, MeanGt(m, perc[k]), k + 1), m, perc, k + 1)

PercentileClass(m, perc) ==
    GtChain(Where(Int16Min, MeanLte(m, perc[1]), 1), m, perc, 1)

StateClasses ==
    /\ st.pc = "classes"
    /\ st' = [st EXCEPT !.pc = "change",
                !.baseline_class =
                    PercentileClass(WindowMean(st.ndvi, 1, st.baseline_end), st.perc),
                !.target_class =
                    PercentileClass(WindowMean(st.ndvi, st.target_start, StYears),
                                    st.perc)]
    /\ UNCHANGED <<traj, fuse, perf, soc, harm, integ, run, trend>>

\* lines 231-233: baseline_mean.subtract(target_mean).abs().lte(100); a value
\* of the series is in units of 1 / MaxVI
MeansClose(bm, tm) ==
    AbsInt(bm[1] * tm[2] - tm[1] * bm[2]) <= MeanDiffMax * MaxVI * bm[2] * tm[2]

\* lines 228-235
classes_change(bc, tc, bm, tm) == Where(tc - bc, MeansClose(bm, tm), 0)

\* lines 240-245
degredation(cc) ==
    LET i0 == Int16Min
        i1 == Where(i0, cc >= 2, 3)
        i2 == Where(i1, cc <= -2 /\ cc # Int16Min, 1)
        i3 == Where(i2, cc < 2 /\ cc > -2, 2)
    IN  i3

StateChange ==
    /\ st.pc = "change"
    /\ LET cc == classes_change(st.baseline_class, st.target_class,
                                WindowMean(st.ndvi, 1, st.baseline_end),
                                WindowMean(st.ndvi, st.target_start, StYears))
       IN  st' = [st EXCEPT !.pc = "done", !.classes_change = cc,
                    !.state = degredation(cc)]
    /\ UNCHANGED <<traj, fuse, perf, soc, harm, integ, run, trend>>

StateNext == StatePercentiles \/ StateClasses \/ StateChange

(***************************************************************************)
(* Soil organic carbon: soil_organic_carbon, for one pixel                 *)
(***************************************************************************)
\* year steps of the period: lc_year_end - p_soc_t_start is in 1..SocYears
SocYears == 3

\* land cover changes of the pixel during the period
MaxChanges == 2

\* largest initial stock of the pixel
MaxSoc == 2

\* the equilibration constant of lines 81 and 150
SocDivisor == 20

\* the years since transition beyond which the change is zero (line 151)
SocTimeMax == 20

\* the percent change beyond which the stock improved or degraded
SocChange10 == 10

\* land cover classes after pm.translation_matrix
SocLc == {1, 2}

\* the product of the three factors a transition code is remapped to, in
\* tenths; a code pm.IPCC_lc_change_matrix does not list is masked
FactorCells == {Val(Rat(f, 10)) : f \in {0, 5, 10, 20}} \cup {Masked}

SocIdle == [pc |-> "idle", n |-> 0, year |-> 0, changes |-> 0, lc |-> <<>>,
            factors |-> <<>>, lc_transition |-> 0, lc_transition_time |-> 0,
            organic_carbon_change |-> Masked, soc_images |-> <<>>,
            soc_percent_change |-> Masked, soc_class |-> 0]

\* lines 9-10 and 31-37: the stock of the pixel (masked where it is the
\* no-data value), the land cover of the first year, the length of the period
SocStart ==
    {[SocIdle EXCEPT !.pc = "first", !.n = n, !.lc = <<l>>,
                     !.soc_images = <<stock>>] :
        n \in 1..SocYears, l \in SocLc,
        stock \in {Val(Rat(x, 1)) : x \in 0..MaxSoc} \cup {Masked}}

\* periods long enough for the years since transition to pass SocTimeMax
LongYears == 22

\* the larger initial stock of the long periods
LongSoc == 50

\* the same program over a long period, with at most one land cover change
SocLongStart ==
    {[SocIdle EXCEPT !.pc = "first", !.n = n, !.lc = <<l>>,
                     !.changes = MaxChanges - 1,
                     !.soc_images = <<stock>>] :
        n \in (LongYears - 2)..LongYears, l \in SocLc,
        stock \in {Val(Rat(1, 1)), Val(Rat(LongSoc, 1)), Masked}}

\* the factor tables, read where the model first needs a code
FactorChoices(factors, code) ==
    IF code \in DOMAIN factors THEN {factors[code]} ELSE FactorCells

\* lines 77-81 without the subtraction from the stock
StockChangeNoComplement(stock, f) ==
    CellMul(CellMul(stock, f), Val(Rat(1, SocDivisor)))

\* lines 77-81 and 143-150: stock.subtract(stock * factors).divide(20)
StockChange(stock, f) ==
    CellMul(CellSub(stock, CellMul(stock, f)), Val(Rat(1, SocDivisor)))

\* the land cover of the next year: any class, within the bound on changes
NextLc(lc0, changes) == {l \in SocLc : l = lc0 \/ changes < MaxChanges}

\* lines 39-89: the first two years
SocFirst ==
    /\ soc.pc = "first"
    /\ \E lc1 \in NextLc(soc.lc[1], soc.changes) :
         LET lc0 == soc.lc[1]
             code == lc0 * 100 + lc1
         IN  \E f \in FactorChoices(soc.factors, code) :
               LET stock == soc.soc_images[1]
                   change == StockChange(stock, f)
               IN  soc' = [soc EXCEPT
                      !.pc = "loop", !.year = 1,
                      !.changes = IF lc0 # lc1 THEN @ + 1 ELSE @,
                      !.lc = Append(@, lc1),
                      !.factors = (code :> f) @@ @,
                      !.lc_transition = code,
                      !.lc_transition_time = Where(2, lc0 # lc1, 1),
                      !.organic_carbon_change = change,
                      !.soc_images = Append(@, CellSub(stock, change))]
    /\ UNCHANGED <<traj, fuse, perf, st, harm, integ, run, trend>>

\* lines 108-110: the years since the last transition, without the increment
TransitionTimeNoIncrement(time, lc0, lc1) == Where(time, lc0 # lc1, 1)

\* lines 108-110: lc_transition_time.where(lc0 == lc1, lc_transition_time + 1)
\*                                  .where(lc0 != lc1, 1)
TransitionTime(time, lc0, lc1) ==
    Where(Where(time, lc0 = lc1, time + 1), lc0 # lc1, 1)

\* lines 141-151 with the change set to 0 from the twentieth year on
OrganicCarbonChangeFromTwenty(previous, lc0, lc1, fresh, time) ==
    WhereCell(WhereCell(previous, Val(lc0 # lc1), fresh),
              Val(time >= SocTimeMax), Val(Rat(0, 1)))

\* lines 141-151 with the change recomputed in every year
OrganicCarbonChangeEveryYear(previous, lc0, lc1, fresh, time) ==
    WhereCell(WhereCell(previous, Val(TRUE), fresh),
              Val(time > SocTimeMax), Val(Rat(0, 1)))

\* lines 141-151: organic_carbon_change.where(lc0 != lc1, fresh)
\*                                     .where(lc_transition_time > 20, 0)
OrganicCarbonChange(previous, lc0, lc1, fresh, time) ==
    WhereCell(WhereCell(previous, Val(lc0 # lc1), fresh),
              Val(time > SocTimeMax), Val(Rat(0, 1)))

\* lines 95-157: one pass of the loop, for year = p_soc_t_start + soc.year
SocStep ==
    /\ soc.pc = "loop"
    /\ soc.year < soc.n
    /\ \E lc1 \in NextLc(soc.lc[soc.year + 1], soc.changes) :
         LET lc0 == soc.lc[soc.year + 1]
             time == TransitionTime(soc.lc_transition_time, lc0, lc1)
             code == Where(soc.lc_transition, lc0 # lc1, lc0 * 10 + lc1)
         IN  \E f \in FactorChoices(soc.factors, code) :
               LET stock == soc.soc_images[soc.year + 1]
                   change ==
                       OrganicCarbonChange(soc.organic_carbon_change, lc0, lc1,
                                           StockChange(stock, f), time)
               IN  soc' = [soc EXCEPT
                      !.year = @ + 1,
                      !.changes = IF lc0 # lc1 THEN @ + 1 ELSE @,
                      !.lc = Append(@, lc1),
                      !.factors = (code :> f) @@ @,
                      !.lc_transition = code,
                      !.lc_transition_time = time,
                      !.organic_carbon_change = change,
                      !.soc_images = Append(@, CellSub(stock, change))]
    /\ UNCHANGED <<traj, fuse, perf, st, harm, integ, run, trend>>

\* the percent change taken relative to the last stock
PercentChangeOverLast(last, first) ==
    CellMul(CellDiv(CellSub(last, first), last), Val(Rat(100, 1)))

\* lines 160-165
PercentChange(last, first) ==
    CellMul(CellDiv(CellSub(last, first), first), Val(Rat(100, 1)))

\* lines 169-176: ee.Image(0).where(p > 10, 3)
\*                  .where(p < 10 and p > -10, 2).where(p < -10, 1)
SocClass(p) ==
    LET i0 == 0
        i1 == Where(i0, p.ok /\ RatGt(p.v, Rat(SocChange10, 1)), 3)
        i2 == Where(i1, p.ok /\ RatLt(p.v, Rat(SocChange10, 1))
                             /\ RatGt(p.v, Rat(-SocChange10, 1)), 2)
        i3 == Where(i2, p.ok /\ RatLt(p.v, Rat(-SocChange10, 1)), 1)
    IN  i3

SocFinish ==
    /\ soc.pc = "loop"
    /\ soc.year = soc.n
    /\ LET p == PercentChange(soc.soc_images[soc.n + 1], soc.soc_images[1])
       IN  soc' = [soc EXCEPT !.pc = "done", !.soc_percent_change = p,
                     !.soc_class = SocClass(p)]
    /\ UNCHANGED <<traj, fuse, perf, st, harm, integ, run, trend>>

SocNext == SocFirst \/ SocStep \/ SocFinish

(***************************************************************************)
(* Sensor harmonization: rename_band, cloud_mask, apply_scale_factor       *)
(* (component/scripts/integration.py), for one pixel of one observation    *)
(***************************************************************************)
Landsat457 == {"Landsat 4", "Landsat 5", "Landsat 7"}
Landsat89 == {"Landsat 8", "Landsat 9"}
Landsat == Landsat457 \cup Landsat89

\* the sensors the three functions know, and the names they may be given
SurfaceReflectanceSensors == Landsat \cup {"Sentinel 2"}
SensorNames == SurfaceReflectanceSensors \cup {"MODIS", "other"}

\* digital numbers of the reflectance bands, and the quality bits that the
\* masks read
DigitalNumbers == {10000, 20000}
QaBits == {3, 4, 8, 10, 11}

HarmIdle == [pc |-> "idle", sensor |-> "", bands |-> "", qa |-> {},
             refl |-> Masked, renamed |-> FALSE, scaled |-> 0, err |-> ""]

\* an observation with its native band names
HarmStart ==
    {[HarmIdle EXCEPT !.pc = "rename_band", !.sensor = sn, !.bands = "native",
                      !.qa = q, !.refl = Val(Rat(dn, 1))] :
        sn \in SensorNames, q \in SUBSET QaBits, dn \in DigitalNumbers}

\* lines 164-176: the bands are selected and renamed for the sensors of the
\* three branches; any other image is returned as it came
rename_band(img, sensor) ==
    IF sensor \in Landsat457 THEN [img EXCEPT !.bands = "Blue,Red,NIR,pixel_qa", !.renamed = TRUE]
    ELSE IF sensor \in Landsat89 THEN [img EXCEPT !.bands = "Blue,Red,NIR,pixel_qa", !.renamed = TRUE]
    ELSE IF sensor = "Sentinel 2" THEN [img EXCEPT !.bands = "Blue,Red,NIR,QA60", !.renamed = TRUE]
    ELSE img

RenameBand ==
    /\ harm.pc = "rename_band"
    /\ harm' = [rename_band(harm, harm.sensor) EXCEPT !.pc = "cloud_mask"]
    /\ UNCHANGED <<traj, fuse, perf, st, soc, integ, run, trend>>

\* lines 186-188: cloud bit 3 with confidence bit 8, or shadow bit 4
LandsatCloud(qa) == (3 \in qa /\ 8 \in qa) \/ 4 \in qa

\* lines 197-200: cloud bit 10 and cirrus bit 11 both clear
SentinelClear(qa) == 10 \notin qa /\ 11 \notin qa

\* updateMask
UpdateMask(cell, keep) == IF keep THEN cell ELSE Masked

\* lines 179-212: a sensor of no branch gets its image back as it came (the
\* MODIS branch reads the DetailedQA band of the vegetation index products)
cloud_mask(img, sensor) ==
    IF sensor \in Landsat
    THEN [img EXCEPT !.refl = UpdateMask(@, ~LandsatCloud(img.qa))]
    ELSE IF sensor = "Sentinel 2"
    THEN [img EXCEPT !.refl = CellMul(UpdateMask(@, SentinelClear(img.qa)),
                                      Val(Rat(1, 10000))),
                     !.scaled = @ + 1]
    ELSE img

CloudMask ==
    /\ harm.pc = "cloud_mask"
    /\ harm' = [cloud_mask(harm, harm.sensor) EXCEPT !.pc = "apply_scale_factor"]
    /\ UNCHANGED <<traj, fuse, perf, st, soc, integ, run, trend>>

\* lines 221-233: Landsat is multiplied by 0.0000275 and -0.2 is added,
\* Sentinel 2 is multiplied by 0.0001; for any other sensor scalled_img is
\* never assigned and the return statement raises UnboundLocalError
ScaleBound(sensor) == sensor \in SurfaceReflectanceSensors

apply_scale_factor(img, sensor) ==
    IF sensor \in Landsat
    THEN [img EXCEPT !.refl = IF @.ok
                               THEN Val(RatAdd(RatMul(@.v, Rat(11, 400000)),
                                               Rat(-1, 5)))
                               ELSE Masked,
                     !.scaled = @ + 1]
    ELSE [img EXCEPT !.refl = CellMul(@, Val(Rat(1, 10000))),
                     !.scaled = @ + 1]

ApplyScaleFactor ==
    /\ harm.pc = "apply_scale_factor"
    /\ IF ScaleBound(harm.sensor)
       THEN harm' = [apply_scale_factor(harm, harm.sensor) EXCEPT !.pc = "done"]
       ELSE harm' = [harm EXCEPT !.pc = "error", !.err = "UnboundLocalError"]
    /\ UNCHANGED <<traj, fuse, perf, st, soc, integ, run, trend>>

HarmNext == RenameBand \/ CloudMask \/ ApplyScaleFactor

(***************************************************************************)
(* Annual integration: int_yearly_ndvi, annual_modis_vi, preproc_modis_npp *)
(* and int_yearly_climate (component/scripts/integration.py), for one      *)
(* pixel of an observation series                                          *)
(***************************************************************************)
MaxYear == 2
MaxObs == 3

IntYears == 1..MaxYear

\* the acquisition dates within a year, <<month, day>>: two in the first
\* month and one in the second
ObsDates == {<<1, 1>>, <<1, 2>>, <<2, 1>>}
ObsTimes == IntYears \X ObsDates
ObsValues == {1, 2}

Routines == {"int_yearly_ndvi", "annual_modis_vi", "preproc_modis_npp",
             "int_yearly_climate"}

\* the observations of an assignment of values to acquisition times, 0
\* standing for no acquisition at that time
Observations(f) ==
    {[year |-> t[1], month |-> t[2][1], day |-> t[2][2],
      value |-> Val(Rat(f[t], 1))] : t \in {u \in ObsTimes : f[u] # 0}}

SeriesSet ==
    {Observations(f) :
        f \in {g \in [ObsTimes -> ObsValues \cup {0}] :
                  Cardinality({u \in ObsTimes : g[u] # 0}) <= MaxObs}}

IntegIdle == [pc |-> "idle", routine |-> "", start |-> 0, end |-> 0,
              series |-> {}, out |-> <<>>, again |-> <<>>, err |-> ""]

IntegStart ==
    {[IntegIdle EXCEPT !.pc = "integrate", !.routine = r, !.start = a,
                       !.end = b, !.series = s] :
        r \in Routines, a \in IntYears, b \in IntYears, s \in SeriesSet}

\* a filter that keeps the observations of the year and of the later years
CalendarYearFrom(coll, year) == {o \in coll : o.year >= year}

\* ee.Filter.calendarRange(year, field="year")
CalendarYear(coll, year) == {o \in coll : o.year = year}

\* ee.Filter.calendarRange(month, field="month")
CalendarMonth(coll, month) == {o \in coll : o.month = month}

\* the sum and the number of the unmasked values of a set of images
RECURSIVE SumCount(_)
SumCount(coll) ==
    IF coll = {} THEN <<Rat(0, 1), 0>>
    ELSE LET o == CHOOSE x \in coll : TRUE
             r == SumCount(coll \ {o})
         IN  IF o.value.ok THEN <<RatAdd(r[1], o.value.v), r[2] + 1>> ELSE r

\* reduce(ee.Reducer.mean()): the mean of the unmasked values, masked where
\* there is none
ReduceMean(coll) ==
    LET sc == SumCount(coll)
    IN  IF sc[2] = 0 THEN Masked ELSE Val(RatMul(sc[1], Rat(1, sc[2])))

\* lines 244-254: one image per entry of months, which holds the month of
\* every observation of the year; the image of an entry is the mean of the
\* year's observations of that month
RECURSIVE MonthImages(_, _)
MonthImages(rest, ann) ==
    IF rest = {} THEN <<Rat(0, 1), 0>>
    ELSE LET o == CHOOSE x \in rest : TRUE
             r == MonthImages(rest \ {o}, ann)
             m == ReduceMean(CalendarMonth(ann, o.month))
         IN  IF m.ok THEN <<RatAdd(r[1], m.v), r[2] + 1>> ELSE r

\* lines 239-258
daily_to_monthly_to_annual(ndvi_coll, year) ==
    LET ann == CalendarYear(ndvi_coll, year)
        sc == MonthImages(ann, ann)
    IN  IF sc[2] = 0 THEN Masked ELSE Val(RatMul(sc[1], Rat(1, sc[2])))

\* first() of a collection in acquisition order; none for an empty one
Earlier(a, b) == a.month < b.month \/ (a.month = b.month /\ a.day <= b.day)
First(coll) == CHOOSE o \in coll : \A x \in coll : Earlier(o, x)

\* lines 374-377: first().multiply(0.0001)
NppYear(npp_coll, year) ==
    CellMul(First(CalendarYear(npp_coll, year)).value, Val(Rat(1, 10000)))

\* the years for which first() has no image to return
NppNull(npp_coll, start, end) ==
    {y \in start..end : CalendarYear(npp_coll, y) = {}}

YearValue(routine, coll, year) ==
    IF routine = "int_yearly_ndvi" THEN daily_to_monthly_to_annual(coll, year)
    ELSE IF routine = "preproc_modis_npp" THEN NppYear(coll, year)
    ELSE ReduceMean(CalendarYear(coll, year))

BandName(routine) == IF routine = "int_yearly_climate" THEN "clim" ELSE "vi"

\* ee.List.sequence(start, end) mapped to one image per year, each with its
\* year property
Integrated(routine, coll, start, end) ==
    [i \in 1..(IF end >= start THEN end - start + 1 ELSE 0) |->
        [year |-> start + i - 1, band |-> BandName(routine),
         value |-> YearValue(routine, coll, start + i - 1)]]

\* the annual images read as a series again: the year property as the
\* acquisition time
AsSeries(imgs) ==
    {[year |-> imgs[i].year, month |-> 1, day |-> 1, value |-> imgs[i].value] :
        i \in 1..Len(imgs)}

Integrate ==
    /\ integ.pc = "integrate"
    /\ IF integ.routine = "preproc_modis_npp"
          /\ NppNull(integ.series, integ.start, integ.end) # {}
       THEN integ' = [integ EXCEPT !.pc = "error", !.err = "NullImage"]
       ELSE integ' = [integ EXCEPT !.pc = "integrated",
                        !.out = Integrated(integ.routine, integ.series,
                                           integ.start, integ.end)]
    /\ UNCHANGED <<traj, fuse, perf, st, soc, harm, run, trend>>

IntegrateAgain ==
    /\ integ.pc = "integrated"
    /\ integ' = [integ EXCEPT !.pc = "done",
                    !.again = Integrated(integ.routine, AsSeries(integ.out),
                                         integ.start, integ.end)]
    /\ UNCHANGED <<traj, fuse, perf, st, soc, harm, run, trend>>

IntegNext == Integrate \/ IntegrateAgain

(***************************************************************************)
(* A run's configuration through integrate_ndvi_climate                    *)
(* (component/scripts/integration.py) and the windows of                   *)
(* productivity_state (component/scripts/productivity.py)                  *)
(***************************************************************************)
\* None
None == 0

\* the first entry of model.sensors: the two product names the function
\* tests for, a sensor of each type of the catalogue, and a name the
\* catalogue does not hold
SensorKinds == {"MODIS MOD13Q1", "Terra NPP", "SR", "VI", "unknown"}
VegetationIndices == {"ndvi", "evi", "msvi", "savi"}

RunIdle == [pc |-> "idle", start |-> 0, end |-> 0, trend_start |-> None,
            trend_end |-> None, baseline_end |-> 0, target_start |-> 0,
            sensor |-> "", vegetation_index |-> "", period_start |-> 0,
            period_end |-> 0, integrated_vi_coll |-> "", calls |-> <<>>,
            baseline |-> {}, target |-> {}, n |-> 0, series_years |-> {},
            sensors |-> <<>>, sources |-> {}, vi_bands |-> {},
            clim_bands |-> {}, selected_vi |-> {}, selected_clim |-> {},
            err |-> ""]

RunStart ==
    {[RunIdle EXCEPT !.pc = "integrate_ndvi_climate", !.start = a, !.end = b,
                     !.trend_start = ts[1], !.trend_end = ts[2],
                     !.baseline_end = be, !.target_start = tg,
                     !.sensor = sn, !.vegetation_index = vi] :
        a \in IntYears, b \in IntYears,
        ts \in {<<None, None>>} \cup (IntYears \X IntYears),
        be \in IntYears, tg \in IntYears,
        sn \in SensorKinds, vi \in VegetationIndices}

\* lines 12-20: min and max of the entries that are not None (state_start,
\* performance_start and their ends are None here)
NotNone(list) == {list[i] : i \in DOMAIN list} \ {None}
Min(S) == CHOOSE x \in S : \A y \in S : x <= y
Max(S) == CHOOSE x \in S : \A y \in S : x >= y
PeriodStart(r) == Min(NotNone(<<r.start, r.trend_start, None, None>>))
PeriodEnd(r) == Max(NotNone(<<r.end, r.trend_end, None, None>>))

\* lines 22-148: the routine that integrates the index, "" where no branch
\* assigns integrated_vi_coll
ViRoutine(sensor, vi) ==
    IF sensor = "MODIS MOD13Q1"
    THEN (IF vi \in {"ndvi", "evi", "msvi"} THEN "annual_modis_vi" ELSE "")
    ELSE IF sensor = "Terra NPP" THEN "preproc_modis_npp"
    ELSE IF sensor = "SR" THEN "int_yearly_ndvi"
    ELSE IF sensor = "VI"
    THEN (IF vi \in {"ndvi", "evi"} THEN "annual_modis_vi" ELSE "")
    ELSE ""

\* lines 81 and 104-111: the catalogue has no entry for the name (KeyError),
\* or no branch of lines 104-109 assigns vi_coll before line 111 reads it
ViError(sensor, vi) ==
    IF sensor = "unknown" THEN "KeyError"
    ELSE IF sensor = "SR" /\ vi \notin {"ndvi", "evi", "msvi"}
    THEN "UnboundLocalError"
    ELSE ""

\* the bands of the annual images a routine returns: rename("vi") in lines
\* 256, 362 and 377 of integration.py, with the year band of lines 363 and 378
IntegratedBands(routine) ==
    IF routine = "int_yearly_ndvi" THEN {"vi"}
    ELSE IF routine \in {"annual_modis_vi", "preproc_modis_npp"} THEN {"vi", "year"}
    ELSE {}

\* lines 277-278 of integration.py: rename("clim") and the year band
ClimateBands == {"clim", "year"}

\* the bands the classifiers select from the two annual series: lines 69,
\* 152-196, 289, 391-392, 410 and 426-427 of productivity.py
ClassifierViBands == {"ndvi"}
ClassifierClimateBands == {"clim"}

\* lines 10-161
IntegrateNdviClimate ==
    /\ run.pc = "integrate_ndvi_climate"
    /\ LET r1 == [run EXCEPT !.period_start = PeriodStart(run),
                             !.period_end = PeriodEnd(run)]
           e == ViError(run.sensor, run.vegetation_index)
           v == ViRoutine(run.sensor, run.vegetation_index)
           c1 == IF v = "" THEN <<>> ELSE <<v>>
       IN  IF e # ""
           THEN run' = [r1 EXCEPT !.pc = "error", !.err = e]
           ELSE IF v = ""
           THEN run' = [r1 EXCEPT !.pc = "error", !.err = "UnboundLocalError",
                          !.calls = <<"int_yearly_climate">>]
           ELSE run' = [r1 EXCEPT !.pc = "productivity_trajectory",
                          !.vi_bands = IntegratedBands(v),
                          !.clim_bands = ClimateBands,
                          !.integrated_vi_coll = v,
                          !.calls = c1 \o <<"int_yearly_climate">>]
    /\ UNCHANGED <<traj, fuse, perf, st, soc, harm, integ, trend>>

\* lines 239-261, 268-283, 355-367 and 372-382: ee.List.sequence(start, end)
\* mapped to one annual raster per year
AnnualYears(a, b) == {y \in IntYears : a <= y /\ y <= b}

\* lines 286 and 368 of productivity.py: n = end - start + 1
SampleSize(start, end) == end - start + 1

\* productivity_trajectory hands model.start, model.end and the integrated
\* series, as it is, to the estimator (lines 22-33 of productivity.py); the
\* estimator reduces the whole series it is given
ProductivityTrajectory ==
    /\ run.pc = "productivity_trajectory"
    /\ run' = [run EXCEPT !.pc = "productivity_state",
                 !.n = SampleSize(run.start, run.end),
                 !.series_years = AnnualYears(run.period_start, run.period_end),
                 !.selected_vi = @ \cup ClassifierViBands,
                 !.selected_clim = @ \cup ClassifierClimateBands,
                 !.calls = Append(@, "productivity_trajectory")]
    /\ UNCHANGED <<traj, fuse, perf, st, soc, harm, integ, trend>>

\* lines 147-148 of productivity.py: the two windows are read as they come
BaselineYears(r) == {y \in IntYears : r.start <= y /\ y <= r.baseline_end}
TargetYears(r) == {y \in IntYears : r.target_start <= y /\ y <= r.end}

ProductivityState ==
    /\ run.pc = "productivity_state"
    /\ run' = [run EXCEPT !.pc = "done",
                 !.baseline = BaselineYears(run), !.target = TargetYears(run),
                 !.selected_vi = @ \cup ClassifierViBands,
                 !.calls = Append(@, "productivity_state")]
    /\ UNCHANGED <<traj, fuse, perf, st, soc, harm, integ, trend>>

RunNext == IntegrateNdviClimate \/ ProductivityTrajectory \/ ProductivityState

\* model.sensors as a list of several names: the two MODIS index products,
\* the NPP product and two surface reflectance sensors
MaxSensors == 3
ListedSensors ==
    {"MODIS MOD13Q1", "MODIS MYD13Q1", "Terra NPP", "Landsat 8", "Sentinel 2"}

SensorLists ==
    UNION {{l \in [1..k -> ListedSensors] :
               \A i \in 1..k : \A j \in 1..k : i # j => l[i] # l[j]} :
           k \in 1..MaxSensors}

SensorsStart ==
    {[RunIdle EXCEPT !.pc = "sensors", !.sensors = l] : l \in SensorLists}

\* lines 22-99: the collections that are read and merged into the
\* observation series: the MODIS products that are listed if either is, else
\* the NPP product if it is listed, else every sensor of the list
ObservationSources(sensors) ==
    LET listed == {sensors[i] : i \in DOMAIN sensors}
    IN  IF "MODIS MOD13Q1" \in listed \/ "MODIS MYD13Q1" \in listed
        THEN listed \cap {"MODIS MOD13Q1", "MODIS MYD13Q1"}
        ELSE IF "Terra NPP" \in listed THEN {"Terra NPP"}
        ELSE listed

MergeSensors ==
    /\ run.pc = "sensors"
    /\ run' = [run EXCEPT !.pc = "merged",
                 !.sources = ObservationSources(run.sensors)]
    /\ UNCHANGED <<traj, fuse, perf, st, soc, harm, integ, trend>>

SensorsNext == MergeSensors

(***************************************************************************)
(* Trend estimators: ndvi_trend, restrend, ndvi_climate_merge and          *)
(* ndvi_residuals (component/scripts/productivity.py), for one pixel       *)
(***************************************************************************)
\* years of an annual series; a year holds one of TrendYears values
TrendYears == 5
TrendValues == 0..(TrendYears - 1)

\* years and values of the two series of restrend
ResYears == 3
ResNdvi == {0, 1, 2}
ResClim == {1, 2}

TrendIdle == [pc |-> "idle", start |-> 0, end |-> 0, ndvi |-> <<>>,
              clim |-> <<>>, residual |-> <<>>,
              tau |-> [ok |-> FALSE, s |-> 0, d2 |-> 0],
              z |-> Masked, class |-> 0, err |-> ""]

\* the annual images of the years 1..n that f gives a value (-1: no image)
RECURSIVE AnnualSeries(_, _)
AnnualSeries(f, n) ==
    IF n = 0 THEN <<>>
    ELSE IF f[n] = -1 THEN AnnualSeries(f, n - 1)
    ELSE Append(AnnualSeries(f, n - 1), [year |-> n, value |-> Val(Rat(f[n], 1))])

\* ndvi_trend is called with the annual series of the years start..end
NdviTrendStart ==
    {[TrendIdle EXCEPT !.pc = "ndvi_trend", !.start = 1,
                       !.end = Len(AnnualSeries(f, TrendYears)),
                       !.ndvi = AnnualSeries(f, TrendYears)] :
        f \in {g \in [1..TrendYears -> TrendValues \cup {-1}] :
                  /\ g[1] # -1
                  /\ \A i \in 1..(TrendYears - 1) : g[i] = -1 => g[i + 1] = -1}}

\* restrend is called with an annual index series and an annual climate
\* series, each holding any of the years start..end
RestrendStart ==
    {[TrendIdle EXCEPT !.pc = "restrend", !.start = 1, !.end = ResYears,
                       !.ndvi = AnnualSeries(f, ResYears),
                       !.clim = AnnualSeries(g, ResYears)] :
        f \in [1..ResYears -> ResNdvi \cup {-1}],
        g \in [1..ResYears -> ResClim \cup {-1}]}

\* the unmasked values of a series, in its order
RECURSIVE Unmasked(_)
Unmasked(x) ==
    IF x = <<>> THEN <<>>
    ELSE IF Head(x).value.ok THEN <<Head(x).value.v>> \o Unmasked(Tail(x))
    ELSE Unmasked(Tail(x))

\* a correlation whose sign is reversed
kendallsCorrelationReversed(x) ==
    LET y == Unmasked(x)
        pairs == {q \in (1..Len(y)) \X (1..Len(y)) : q[1] < q[2]}
        up == Cardinality({q \in pairs : RatLt(y[q[1]], y[q[2]])})
        down == Cardinality({q \in pairs : RatLt(y[q[2]], y[q[1]])})
        d2 == Cardinality(pairs) * (up + down)
    IN  [ok |-> d2 > 0, s |-> down - up, d2 |-> d2]

\* ee.Reducer.kendallsCorrelation() with one input: Kendall's tau-b of the
\* values against their sequence numbers.  s is concordant minus discordant
\* pairs, d2 the square of the denominator, n0 * (n0 - tied pairs); tau is
\* s / sqrt(d2), masked where d2 is 0
kendallsCorrelation(x) ==
    LET y == Unmasked(x)
        pairs == {q \in (1..Len(y)) \X (1..Len(y)) : q[1] < q[2]}
        up == Cardinality({q \in pairs : RatLt(y[q[1]], y[q[2]])})
        down == Cardinality({q \in pairs : RatLt(y[q[2]], y[q[1]])})
        n0 == Cardinality(pairs)
        d2 == n0 * (up + down)
    IN  [ok |-> d2 > 0, s |-> up - down, d2 |-> d2]

\* pm.z_coefficient(n), squared, as a fraction: the normal approximation of
\* the Mann-Kendall statistic, z = tau * sqrt(9 n (n - 1) / (2 (2 n + 5)))
z_coefficient(n) == <<9 * n * (n - 1), 2 * (2 * n + 5)>>

\* the integer part of the square root of a number below 1000 * 1000
ISqrt(x) == CHOOSE k \in 0..1000 : k * k <= x /\ (k + 1) * (k + 1) > x

\* tau.multiply(z_coefficient), in hundredths, truncated
ZScore(tau, n) ==
    IF ~tau.ok THEN Masked
    ELSE LET zc == z_coefficient(n)
             sq == (10000 * tau.s * tau.s * zc[1]) \div (tau.d2 * zc[2])
             r == ISqrt(sq)
         IN  Val(IF tau.s < 0 THEN -r ELSE r)

\* lines 285-294
NdviTrend ==
    /\ trend.pc = "ndvi_trend"
    /\ LET tau == kendallsCorrelation(trend.ndvi)
       IN  trend' = [trend EXCEPT !.pc = "classify", !.tau = tau,
                        !.z = ZScore(tau, trend.end - trend.start + 1)]
    /\ UNCHANGED <<traj, fuse, perf, st, soc, harm, integ, run>>

\* the years of a series
SeriesYears(x) == {x[i].year : i \in 1..Len(x)}

\* the image of a year in a series
YearImage(x, year) == x[CHOOSE i \in 1..Len(x) : x[i].year = year]

\* lines 378-402: ee.Join.inner on year; one image per year of both series
ndvi_climate_merge(clim, ndvi) ==
    LET both == SeriesYears(clim) \cap SeriesYears(ndvi)
        sel == SelectSeq(clim, LAMBDA c : c.year \in both)
    IN  [i \in 1..Len(sel) |->
            [year |-> sel[i].year, clim |-> sel[i].value,
             ndvi |-> YearImage(ndvi, sel[i].year).value]]

RECURSIVE RatSum(_)
RatSum(x) == IF x = <<>> THEN Rat(0, 1) ELSE RatAdd(Head(x), RatSum(Tail(x)))

\* lines 314-316: ee.Reducer.linearFit of ndvi on clim over the joined
\* years, <<scale, offset>>; masked where the climate values do not vary
linearFit(joined) ==
    LET pts == SelectSeq(joined, LAMBDA j : j.clim.ok /\ j.ndvi.ok)
        m == Len(pts)
        x == [i \in 1..m |-> pts[i].clim.v]
        y == [i \in 1..m |-> pts[i].ndvi.v]
        sx == RatSum(x)
        sy == RatSum(y)
        sxx == RatSum([i \in 1..m |-> RatMul(x[i], x[i])])
        sxy == RatSum([i \in 1..m |-> RatMul(x[i], y[i])])
        den == RatSub(RatMul(Rat(m, 1), sxx), RatMul(sx, sx))
        num == RatSub(RatMul(Rat(m, 1), sxy), RatMul(sx, sy))
    IN  IF m = 0 \/ den[1] = 0 THEN <<Masked, Masked>>
        ELSE LET scale == Rat(num[1] * den[2], num[2] * den[1])
             IN  <<Val(scale),
                   Val(RatMul(RatSub(sy, RatMul(scale, sx)), Rat(1, m)))>>

\* lines 318-337: offset + scale * clim for every joined year
ndvi_prediction_climate(fit, joined) ==
    [i \in 1..Len(joined) |->
        [year |-> joined[i].year,
         value |-> IF fit[1].ok /\ joined[i].clim.ok
                   THEN Val(RatAdd(fit[2].v, RatMul(fit[1].v, joined[i].clim.v)))
                   ELSE Masked]]

\* lines 404-419: observed minus the first predicted image of the year
ndvi_residuals(image, modeled) ==
    [year |-> image.year,
     value |-> CellSub(image.value, YearImage(modeled, image.year).value)]

\* lines 296-352.  ndvi_residuals is mapped over every image of the index
\* series; for a year without a predicted image, first() is null and the
\* subtraction fails
Restrend ==
    /\ trend.pc = "restrend"
    /\ LET joined == ndvi_climate_merge(trend.clim, trend.ndvi)
           modeled == ndvi_prediction_climate(linearFit(joined), joined)
       IN  IF SeriesYears(trend.ndvi) \subseteq SeriesYears(modeled)
           THEN LET res == [i \in 1..Len(trend.ndvi) |->
                               ndvi_residuals(trend.ndvi[i], modeled)]
                    tau == kendallsCorrelation(res)
                IN  trend' = [trend EXCEPT !.pc = "classify", !.residual = res,
                                !.tau = tau,
                                !.z = ZScore(tau, trend.end - trend.start + 1)]
           ELSE trend' = [trend EXCEPT !.pc = "error", !.err = "NullImage"]
    /\ UNCHANGED <<traj, fuse, perf, st, soc, harm, integ, run>>

\* lines 36-41 of productivity_trajectory, on the z-score of the estimator
TrendClassify ==
    /\ trend.pc = "classify"
    /\ trend' = [trend EXCEPT !.pc = "done", !.class = TrajectoryClass(trend.z)]
    /\ UNCHANGED <<traj, fuse, perf, st, soc, harm, integ, run>>

NdviTrendNext == NdviTrend \/ TrendClassify

RestrendNext == Restrend \/ TrendClassify

(***************************************************************************)
(* The three classifiers followed by productivity_final, for one pixel     *)
(***************************************************************************)
\* what the classifiers of one pixel work on: the z-score of the trend
\* estimator, the ratio of the mean index to the percentile of the zone and
\* the difference of the target and baseline bands
PipelineStart ==
    [pc : {"classify"}, trajectory : {0}, performance : {0}, state : {0},
     productivity : {0}, z : ZScores,
     ratio : {Val(<<100 * m, 100 * q>>) : m \in 1..MaxVI, q \in 1..MaxVI}
                \cup {Masked},
     classes_change : (-9)..9]

\* productivity_trajectory, productivity_performance and productivity_state
\* each write their class raster
PipelineClassify ==
    /\ fuse.pc = "classify"
    /\ fuse' = [fuse EXCEPT !.pc = "final",
                  !.trajectory = TrajectoryClass(fuse.z),
                  !.performance = PerformanceClass(fuse.ratio),
                  !.state = degredation(fuse.classes_change)]
    /\ UNCHANGED <<traj, perf, st, soc, harm, integ, run, trend>>

PipelineNext == PipelineClassify \/ FuseFinal

(***************************************************************************)
(* Specifications                                                          *)
(***************************************************************************)
InitTraj ==
    /\ traj \in TrajStart
    /\ fuse = FuseIdle
    /\ perf = PerfIdle
    /\ st = StIdle
    /\ soc = SocIdle
    /\ harm = HarmIdle
    /\ integ = IntegIdle
    /\ run = RunIdle
    /\ trend = TrendIdle

SpecTraj == InitTraj /\ [][TrajNext]_vars

InitFuse ==
    /\ fuse = FuseStart
    /\ traj = TrajIdle
    /\ perf = PerfIdle
    /\ st = StIdle
    /\ soc = SocIdle
    /\ harm = HarmIdle
    /\ integ = IntegIdle
    /\ run = RunIdle
    /\ trend = TrendIdle

InitPipeline ==
    /\ fuse \in PipelineStart
    /\ traj = TrajIdle
    /\ perf = PerfIdle
    /\ st = StIdle
    /\ soc = SocIdle
    /\ harm = HarmIdle
    /\ integ = IntegIdle
    /\ run = RunIdle
    /\ trend = TrendIdle

SpecFuse == InitFuse /\ [][FuseNext]_vars
SpecPipeline == InitPipeline /\ [][PipelineNext]_vars

InitPerf ==
    /\ perf \in PerfStart
    /\ traj = TrajIdle
    /\ fuse = FuseIdle
    /\ st = StIdle
    /\ soc = SocIdle
    /\ harm = HarmIdle
    /\ integ = IntegIdle
    /\ run = RunIdle
    /\ trend = TrendIdle

SpecPerf == InitPerf /\ [][PerfNext]_vars

InitState ==
    /\ st \in StStart
    /\ traj = TrajIdle
    /\ fuse = FuseIdle
    /\ perf = PerfIdle
    /\ soc = SocIdle
    /\ harm = HarmIdle
    /\ integ = IntegIdle
    /\ run = RunIdle
    /\ trend = TrendIdle

InitSoc ==
    /\ soc \in SocStart
    /\ traj = TrajIdle
    /\ fuse = FuseIdle
    /\ perf = PerfIdle
    /\ st = StIdle
    /\ harm = HarmIdle
    /\ integ = IntegIdle
    /\ run = RunIdle
    /\ trend = TrendIdle

InitSocLong ==
    /\ soc \in SocLongStart
    /\ traj = TrajIdle
    /\ fuse = FuseIdle
    /\ perf = PerfIdle
    /\ st = StIdle
    /\ harm = HarmIdle
    /\ integ = IntegIdle
    /\ run = RunIdle
    /\ trend = TrendIdle

InitHarm ==
    /\ harm \in HarmStart
    /\ traj = TrajIdle
    /\ fuse = FuseIdle
    /\ perf = PerfIdle
    /\ st = StIdle
    /\ soc = SocIdle
    /\ integ = IntegIdle
    /\ run = RunIdle
    /\ trend = TrendIdle

InitInteg ==
    /\ integ \in IntegStart
    /\ traj = TrajIdle
    /\ fuse = FuseIdle
    /\ perf = PerfIdle
    /\ st = StIdle
    /\ soc = SocIdle
    /\ harm = HarmIdle
    /\ run = RunIdle
    /\ trend = TrendIdle

SpecInteg == InitInteg /\ [][IntegNext]_vars

InitRun ==
    /\ run \in RunStart
    /\ traj = TrajIdle
    /\ fuse = FuseIdle
    /\ perf = PerfIdle
    /\ st = StIdle
    /\ soc = SocIdle
    /\ harm = HarmIdle
    /\ integ = IntegIdle
    /\ trend = TrendIdle

InitSensors ==
    /\ run \in SensorsStart
    /\ traj = TrajIdle
    /\ fuse = FuseIdle
    /\ perf = PerfIdle
    /\ st = StIdle
    /\ soc = SocIdle
    /\ harm = HarmIdle
    /\ integ = IntegIdle
    /\ trend = TrendIdle

SpecRun == InitRun /\ [][RunNext]_vars
SpecSensors == InitSensors /\ [][SensorsNext]_vars

SpecHarm == InitHarm /\ [][HarmNext]_vars

SpecSoc == InitSoc /\ [][SocNext]_vars
SpecSocLong == InitSocLong /\ [][SocNext]_vars

SpecState == InitState /\ [][StateNext]_vars

InitNdviTrend ==
    /\ trend \in NdviTrendStart
    /\ traj = TrajIdle
    /\ fuse = FuseIdle
    /\ perf = PerfIdle
    /\ st = StIdle
    /\ soc = SocIdle
    /\ harm = HarmIdle
    /\ integ = IntegIdle
    /\ run = RunIdle

SpecNdviTrend == InitNdviTrend /\ [][NdviTrendNext]_vars

InitRestrend ==
    /\ trend \in RestrendStart
    /\ traj = TrajIdle
    /\ fuse = FuseIdle
    /\ perf = PerfIdle
    /\ st = StIdle
    /\ soc = SocIdle
    /\ harm = HarmIdle
    /\ integ = IntegIdle
    /\ run = RunIdle

SpecRestrend == InitRestrend /\ [][RestrendNext]_vars

(***************************************************************************)
(* Claims                                                                  *)
(***************************************************************************)

\* C1: every z-score gets exactly one of the three classes: z < -1.96 is
\* degraded (1), z > 1.96 is improved (3) and every other value, 1.96 and
\* -1.96 included, is stable (2).
C1_ZScorePartition ==
    (traj.pc = "done" /\ traj.z.ok) =>
        traj.class = (IF traj.z.v < -Z196 THEN 1
                      ELSE IF traj.z.v > Z196 THEN 3 ELSE 2)

\* C2: for each of the 18 combinations of trajectory in {1,2,3}, state in
\* {1,2,3} and performance in {1,2}, exactly one row of the table matches and
\* the fused class is that row's class, a value of {1,2,3}.
C2_FusionTotal ==
    (fuse.pc = "done" /\ fuse.trajectory \in 1..3 /\ fuse.state \in 1..3
        /\ fuse.performance \in 1..2) =>
        LET rows == MatchingRows(fuse.trajectory, fuse.performance, fuse.state)
        IN  /\ Cardinality(rows) = 1
            /\ \A i \in rows : fuse.productivity = FinalTable[i].c
            /\ fuse.productivity \in 1..3

\* C2 witness: a fused pixel of the enumeration, stable trajectory and state
\* with a degraded performance
C2_Witness ==
    /\ fuse.pc = "done"
    /\ fuse.trajectory = 2 /\ fuse.state = 2 /\ fuse.performance = 1
    /\ fuse.productivity = 1

\* C3: a pixel with a defined ratio is not-degraded (2) when ratio >= 0.5 and
\* degraded (1) when ratio < 0.5; a ratio of exactly 0.5 is not-degraded (2).
C3_PerformanceThreshold ==
    perf.pc = "done" =>
        \A p \in Pixels :
            perf.ratio[p].ok =>
                perf.class[p] = (IF RatioGte05(perf.ratio[p].v) THEN 2 ELSE 1)

\* C4: a pixel with index means in [0,1] whose target band exceeds its
\* baseline band by 2 or more, and whose means differ by more than the small
\* epsilon, is improved (3).  The means here differ by the whole index range,
\* which is more than any epsilon a pair of means in [0,1] can exceed.
C4_BandGainImproves ==
    (st.pc = "done"
        /\ st.target_class - st.baseline_class >= 2
        /\ LET bm == WindowMean(st.ndvi, 1, st.baseline_end)
               tm == WindowMean(st.ndvi, st.target_start, StYears)
           IN  AbsInt(bm[1] * tm[2] - tm[1] * bm[2]) >= MaxVI * bm[2] * tm[2]) =>
        st.state = 3

\* C5: a pixel with a defined percent change p is improved (3) when p > 10,
\* degraded (1) when p < -10 and stable (2) otherwise; p = 10 and p = -10
\* are stable (2).
C5_SocPartition ==
    (soc.pc = "done" /\ soc.soc_percent_change.ok) =>
        soc.soc_class =
            (IF RatGt(soc.soc_percent_change.v, Rat(SocChange10, 1)) THEN 3
             ELSE IF RatLt(soc.soc_percent_change.v, Rat(-SocChange10, 1)) THEN 1
             ELSE 2)

\* C6: with s_restrend, or a name outside the declared methods, the entry
\* point fails in the method dispatch with a not-implemented or configuration
\* error and never goes on to the classification step.
C6_UnsupportedFailsInDispatch ==
    (traj.method \notin {trajectories[1], trajectories[2], trajectories[4]}
        /\ traj.pc # "dispatch") =>
        (traj.pc = "error"
            /\ traj.err \in {"NotImplementedError", "ConfigurationError"})

\* C7: harmonizing an observation of a sensor that is not a supported one
\* fails with a configuration error: no step returns the observation
\* unchanged or partially processed.
C7_UnknownSensorFails ==
    (harm.sensor \notin SurfaceReflectanceSensors /\ harm.pc # "rename_band") =>
        (harm.pc = "error" /\ harm.err = "ConfigurationError")

\* the window invariants of a configuration and the combinations of sensor
\* and vegetation index that have an integration
ValidWindows(r) ==
    /\ r.start <= r.end
    /\ r.start <= r.baseline_end
    /\ r.target_start <= r.end
    /\ r.baseline_end < r.target_start

SupportedCombination(r) ==
    \/ r.sensor \in {"MODIS MOD13Q1", "SR"} /\ r.vegetation_index \in {"ndvi", "evi", "msvi"}
    \/ r.sensor = "VI" /\ r.vegetation_index \in {"ndvi", "evi"}
    \/ r.sensor = "Terra NPP"

\* C8: a configuration that violates the window invariants or names an
\* unsupported combination of sensor and vegetation index is rejected with a
\* configuration error before anything is computed, and a run that fails
\* fails with a configuration error.
C8_InvalidConfigRejected ==
    /\ (run.pc \notin {"idle", "integrate_ndvi_climate"}
           /\ ~(ValidWindows(run) /\ SupportedCombination(run))) =>
          (run.pc = "error" /\ run.err = "ConfigurationError" /\ run.calls = <<>>)
    /\ run.pc = "error" => run.err = "ConfigurationError"

\* the year's observations of the series
YearObs(y) == {o \in integ.series : o.year = y}

\* C9: for start <= end the integration returns one raster per year of
\* [start, end], in order and tagged with its year, masked for a year without
\* observations, and raises no error, whichever of the four routines runs.
C9_OneRasterPerYear ==
    (integ.pc # "integrate" /\ integ.pc # "idle" /\ integ.start <= integ.end) =>
        /\ integ.pc # "error"
        /\ Len(integ.out) = integ.end - integ.start + 1
        /\ \A i \in 1..Len(integ.out) :
              /\ integ.out[i].year = integ.start + i - 1
              /\ YearObs(integ.out[i].year) = {} => ~integ.out[i].value.ok

\* exactly one observation in every year of [start, end]
OnePerYear ==
    \A y \in integ.start..integ.end : Cardinality(YearObs(y)) = 1

MeanRoutines == {"int_yearly_ndvi", "annual_modis_vi", "int_yearly_climate"}

C11_ResidualInnerJoin ==
    trend.pc \in {"classify", "done", "error"} =>
        /\ trend.pc # "error"
        /\ Len(trend.residual) =
             Cardinality({y \in 1..ResYears :
                 /\ \E i \in 1..Len(trend.ndvi) : trend.ndvi[i].year = y
                 /\ \E i \in 1..Len(trend.clim) : trend.clim[i].year = y})
        /\ \A i \in 1..Len(trend.residual) :
             /\ \E j \in 1..Len(trend.ndvi) : trend.ndvi[j].year = trend.residual[i].year
             /\ \E j \in 1..Len(trend.clim) : trend.clim[j].year = trend.residual[i].year

\* a series whose values strictly increase from year to year
StrictlyIncreasing(x) ==
    \A i \in 1..(Len(x) - 1) : x[i].value.v[1] < x[i + 1].value.v[1]

\* C14: for a strictly increasing annual series analysed by ndvi_trend over
\* its n years (n = 5 in the scenario) Kendall's tau is 1, the z-score is
\* z(n), and the class is improved (3) when z(n) > 1.96.
C14_ScenarioA ==
    (trend.pc = "done" /\ Len(trend.ndvi) >= 2
        /\ StrictlyIncreasing(trend.ndvi)) =>
        LET n == Len(trend.ndvi)
            zn2 == z_coefficient(n)
        IN  /\ trend.tau.ok /\ trend.tau.s * trend.tau.s = trend.tau.d2
            /\ trend.tau.s > 0
            /\ trend.z.ok
            /\ trend.z.v * trend.z.v * zn2[2] <= 10000 * zn2[1]
            /\ (trend.z.v + 1) * (trend.z.v + 1) * zn2[2] > 10000 * zn2[1]
            /\ (10000 * zn2[1] > Z196 * Z196 * zn2[2]) => trend.class = 3

C14_Witness ==
    /\ trend.pc = "done"
    /\ Len(trend.ndvi) = 5
    /\ StrictlyIncreasing(trend.ndvi)
    /\ trend.class = 3

\* the least and the greatest annual value of the baseline years 1..be
BaselineMin == CHOOSE v \in {st.ndvi[y] : y \in 1..st.baseline_end} :
                  \A y \in 1..st.baseline_end : v <= st.ndvi[y]
BaselineMax == CHOOSE v \in {st.ndvi[y] : y \in 1..st.baseline_end} :
                  \A y \in 1..st.baseline_end : v >= st.ndvi[y]

\* C12: the extended baseline distribution of a pixel is its baseline annual
\* values plus exactly two values, p0 - 0.05 * (p100 - p0) and
\* p100 + 0.05 * (p100 - p0), and the deciles are those of that set (values
\* held times 20, deciles times 2000).
C12_BaselineExtension ==
    st.pc \in {"classes", "change", "done"} =>
        LET be == st.baseline_end
            ext == st.extended
        IN  /\ Len(ext) = be + 2
            /\ \A y \in 1..be : ext[y] = 20 * st.ndvi[y]
            /\ ext[be + 1] = 20 * BaselineMin - (BaselineMax - BaselineMin)
            /\ ext[be + 2] = 20 * BaselineMax + (BaselineMax - BaselineMin)
            /\ st.perc = [k \in 1..10 |-> PercentileX100(ext, 10 * k)]

C12_Witness ==
    /\ st.pc = "done"
    /\ st.baseline_end >= 2
    /\ BaselineMax > BaselineMin
    /\ st.extended[st.baseline_end + 1] < 20 * BaselineMin

\* the unweighted mean of the means of the calendar months of year y that
\* have observations
MonthsOf(y) == {o.month : o \in YearObs(y)}
MonthSum(y, mo) ==
    LET obs == {o \in YearObs(y) : o.month = mo}
        RECURSIVE S(_)
        S(T) == IF T = {} THEN 0
                ELSE LET o == CHOOSE x \in T : TRUE IN o.value.v[1] + S(T \ {o})
    IN  <<S(obs), Cardinality(obs)>>
TwoLevelMean(y) ==
    LET RECURSIVE S(_)
        S(M) == IF M = {} THEN Rat(0, 1)
                ELSE LET mo == CHOOSE x \in M : TRUE
                     IN  RatAdd(Rat(MonthSum(y, mo)[1], MonthSum(y, mo)[2]),
                                S(M \ {mo}))
    IN  RatMul(S(MonthsOf(y)), Rat(1, Cardinality(MonthsOf(y))))

\* C16: the annual value int_yearly_ndvi gives a year is the unweighted mean
\* of the means of that year's calendar months, each month with observations
\* counted once.
C16_TwoLevelMean ==
    (integ.pc \in {"integrated", "done"} /\ integ.routine = "int_yearly_ndvi") =>
        \A i \in 1..Len(integ.out) :
            YearObs(integ.out[i].year) # {} =>
                integ.out[i].value = Val(TwoLevelMean(integ.out[i].year))

\* the mean of the annual values of the years a..b, as <<sum, count>>
RECURSIVE StSum(_, _)
StSum(a, b) == IF a > b THEN 0 ELSE st.ndvi[a] + StSum(a + 1, b)
BaselineMean == <<StSum(1, st.baseline_end), st.baseline_end>>
TargetMean == <<StSum(st.target_start, StYears), StYears - st.target_start + 1>>

\* the band of a mean: 1 at or below p10, else 1 + the deciles exceeded
Band(m) ==
    IF 2000 * m[1] <= st.perc[1] * m[2] THEN 1
    ELSE 1 + Cardinality({k \in 1..9 : 2000 * m[1] > st.perc[k] * m[2]})

\* a mean equal to the decile p(10k) is in band k when the decile exceeds the
\* one below it, and never in a band above k
TieLower(m, band) ==
    \A k \in 1..9 :
        2000 * m[1] = st.perc[k] * m[2] =>
            /\ band <= k
            /\ (k = 1 \/ st.perc[k - 1] < st.perc[k]) => band = k

C18_ZeroMeanNoData ==
    perf.pc = "done" =>
        \A p \in Pixels :
            perf.ndvi_mean[p] = 0 => perf.class[p] \notin {1, 2}

\* C20: in every year step, the first included, the transition code of a
\* pixel whose land cover changed in the step is lc(t) * 10 + lc(t+1), and
\* the code of a pixel whose land cover did not change is the code it had.
C20_TransitionCode ==
    [][(soc'.pc = "loop" /\ Len(soc'.lc) = Len(soc.lc) + 1) =>
          LET lc0 == soc'.lc[Len(soc.lc)]
              lc1 == soc'.lc[Len(soc.lc) + 1]
          IN  IF lc0 # lc1 THEN soc'.lc_transition = lc0 * 10 + lc1
              ELSE soc.pc = "loop" => soc'.lc_transition = soc.lc_transition]_vars

\* the land cover of the pixel is the same in every year seen so far
NeverChanged(lc) == \A i \in 1..Len(lc) : lc[i] = lc[1]

\* C13: for a pixel whose land cover never changes, the years since
\* transition start at 2 after the first year step and grow by exactly one in
\* every later step, and in every step where they exceed 20 the annual change
\* of a pixel with data is 0 and the stock of the step equals the stock
\* before it, whatever the factors are.
C13_NoChangeClock ==
    [][(soc'.pc = "loop" /\ Len(soc'.lc) = Len(soc.lc) + 1
           /\ NeverChanged(soc'.lc)) =>
          /\ soc.pc = "first" => soc'.lc_transition_time = 2
          /\ soc.pc = "loop" =>
                soc'.lc_transition_time = soc.lc_transition_time + 1
          /\ (soc'.lc_transition_time > SocTimeMax
                 /\ soc'.organic_carbon_change.ok) =>
                /\ soc'.organic_carbon_change = Val(<<0, 1>>)
                /\ soc'.soc_images[Len(soc'.soc_images)]
                      = soc.soc_images[Len(soc.soc_images)]]_vars

\* the step in which the years since transition first exceed 20: the stock
\* moved in the step before and stands still in this one
C13_Witness ==
    /\ soc.pc = "loop"
    /\ NeverChanged(soc.lc)
    /\ soc.lc_transition_time = SocTimeMax + 1
    /\ soc.organic_carbon_change = Val(<<0, 1>>)
    /\ LET k == Len(soc.soc_images)
       IN  /\ soc.soc_images[k] = soc.soc_images[k - 1]
           /\ soc.soc_images[k - 1] # soc.soc_images[k - 2]

\* starting stock 50, no land cover change, every factor product 1
ScenarioC ==
    /\ soc.pc \in {"loop", "done"}
    /\ NeverChanged(soc.lc)
    /\ soc.soc_images[1] = Val(<<LongSoc, 1>>)
    /\ \A c \in DOMAIN soc.factors : soc.factors[c] = Val(<<1, 1>>)

\* C15: with starting stock 50, factors all 1 and no land cover change, the
\* stock of every year equals the starting stock, and at the end of the period
\* the percent change is 0 and the class is stable (2).
C15_ScenarioC ==
    ScenarioC =>
        /\ \A i \in 1..Len(soc.soc_images) :
              soc.soc_images[i] = soc.soc_images[1]
        /\ soc.pc = "done" =>
              /\ soc.soc_percent_change = Val(<<0, 1>>)
              /\ soc.soc_class = 2

\* the scenario at the end of a period of 20 year steps
C15_Witness ==
    /\ ScenarioC
    /\ soc.pc = "done"
    /\ soc.n = 20
    /\ Len(soc.soc_images) = 21
    /\ soc.soc_class = 2

\* stock x (1 - factors) / 20
FreshChange(stock, f) ==
    IF stock.ok /\ f.ok
    THEN Val(RatMul(RatMul(stock.v, RatSub(<<1, 1>>, f.v)), <<1, 20>>))
    ELSE Masked

\* C19: in every year step, changed land cover or not, the annual change is
\* the stock of the current year x (1 - factors of the current transition
\* code) / 20, or 0 when the years since transition exceed 20.
C19_ChangeEveryYear ==
    [][(soc'.pc = "loop" /\ Len(soc'.lc) = Len(soc.lc) + 1) =>
          LET stock == soc.soc_images[Len(soc.soc_images)]
              f == soc'.factors[soc'.lc_transition]
          IN  (stock.ok /\ f.ok) =>
                 soc'.organic_carbon_change =
                    IF soc'.lc_transition_time > 20
                    THEN Val(<<0, 1>>)
                    ELSE FreshChange(stock, f)]_vars

\* C19 as the program computes it: the change is stock x (1 - factors) / 20 in
\* the first year step and in every later step in which the land cover
\* changed and the stock and the factors have data; in every other step it
\* keeps the value of the step before; and in every step after the first in
\* which the years since transition exceed 20 a change with data is 0.
C19_ChangeAtTransition ==
    [][(soc'.pc = "loop" /\ Len(soc'.lc) = Len(soc.lc) + 1) =>
          LET stock == soc.soc_images[Len(soc.soc_images)]
              f == soc'.factors[soc'.lc_transition]
              fresh == FreshChange(stock, f)
              previous == soc.organic_carbon_change
              changed == soc'.lc[Len(soc'.lc)] # soc.lc[Len(soc.lc)]
              kept == IF changed /\ previous.ok /\ fresh.ok
                      THEN fresh ELSE previous
          IN  /\ soc.pc = "first" => soc'.organic_carbon_change = fresh
              /\ soc.pc = "loop" =>
                    soc'.organic_carbon_change =
                       IF soc'.lc_transition_time > 20 /\ kept.ok
                       THEN Val(<<0, 1>>)
                       ELSE kept]_vars

\* after a step without land cover change, a change that is not what the
\* stock of that year and the factors give
C19_Witness ==
    /\ soc.pc = "loop"
    /\ Len(soc.lc) >= 3
    /\ soc.lc[Len(soc.lc)] = soc.lc[Len(soc.lc) - 1]
    /\ soc.lc_transition_time <= 20
    /\ soc.organic_carbon_change.ok
    /\ soc.organic_carbon_change
          # FreshChange(soc.soc_images[Len(soc.soc_images) - 1],
                        soc.factors[soc.lc_transition])

\* C21: a pixel whose starting stock is zero or no-data gets none of the
\* classes 1, 2, 3 (and the run never fails on it).
C21_ZeroStockNoData ==
    (soc.pc = "done"
        /\ (~soc.soc_images[1].ok \/ soc.soc_images[1] = Val(<<0, 1>>))) =>
        soc.soc_class \notin {1, 2, 3}

\* the three classes are those of a valid pixel and the table has been applied
FusedValid ==
    /\ fuse.pc = "done"
    /\ fuse.trajectory \in 1..3
    /\ fuse.state \in 1..3
    /\ fuse.performance \in 1..2

\* C22: a degraded trajectory fuses to degraded, and in each of the 18
\* combinations the fused class is at most one step away from the trajectory
\* class.
C22_AtMostOneStep ==
    FusedValid =>
        /\ fuse.trajectory = 1 => fuse.productivity = 1
        /\ AbsInt(fuse.productivity - fuse.trajectory) <= 1

\* C22 as the table has it: a degraded trajectory fuses to degraded, the fused
\* class is never above the trajectory class, and it is at most one step
\* below it except for an improving trajectory with degraded state and
\* degraded performance, which fuses to degraded.
C22_OneStepButOneRow ==
    FusedValid =>
        /\ fuse.trajectory = 1 => fuse.productivity = 1
        /\ fuse.productivity \in 1..fuse.trajectory
        /\ IF fuse.trajectory = 3 /\ fuse.state = 1 /\ fuse.performance = 1
           THEN fuse.productivity = 1
           ELSE fuse.trajectory - fuse.productivity <= 1

C22_Witness ==
    /\ FusedValid
    /\ fuse.trajectory = 3 /\ fuse.state = 1 /\ fuse.performance = 1
    /\ fuse.productivity = 1

\* C23: for a pixel valid in all inputs the three classes are in {1,2,3},
\* {1,2,3} and {1,2}, and the fused class is never the default 0.
C23_FusedNeverDefault ==
    (fuse.pc = "done" /\ fuse.z.ok /\ fuse.ratio.ok) =>
        /\ fuse.trajectory \in 1..3
        /\ fuse.state \in 1..3
        /\ fuse.performance \in 1..2
        /\ fuse.productivity # 0

\* C24: the sample size n given to the z-coefficient lookup is the number of
\* annual rasters of the series Kendall's tau is computed over, for every
\* configuration of start, end and the windows.
C24_SampleSizeIsSeriesLength ==
    run.pc \in {"productivity_state", "done"} =>
        run.n = Cardinality(run.series_years)

\* C25: the observation series holds the observations of every listed
\* sensor, whatever the other sensors of the list and whatever its position.
C25_EveryListedSensor ==
    run.pc = "merged" =>
        \A i \in 1..Len(run.sensors) : run.sensors[i] \in run.sources

\* C26: for every supported surface reflectance sensor the chain rename_band,
\* cloud_mask, apply_scale_factor applies the sensor's scale to the
\* reflectance exactly once.
C26_ScaledOnce ==
    (harm.pc = "done" /\ harm.sensor \in SurfaceReflectanceSensors) =>
        harm.scaled = 1

\* the zone code of a pixel and the valid pixels of a zone
ZoneOf(p) == perf.soil[p] * 100 + perf.lc[p]
ValidInZone(code) == {p \in Pixels : perf.ndvi_mean[p] # 0 /\ ZoneOf(p) = code}

\* C27: no pixel is classified before the zonal reduction is complete; the
\* table holds one 90th percentile per zone, taken over all valid pixels of
\* the zone; every pixel of a zone is compared with that one value; and a
\* pixel whose zone has no entry in the table gets no performance class.
C27_ReduceThenClassify ==
    /\ perf.pc \in {"reduce", "classify"} => perf.class = <<>>
    /\ perf.pc \in {"classify", "done"} =>
          /\ perf.ids = {ZoneOf(p) : p \in {q \in Pixels : perf.ndvi_mean[q] # 0}}
          /\ \A c \in perf.ids :
                perf.p90[c] =
                    PercentileX100(Collect(perf.ndvi_mean, ValidInZone(c), NPix), 90)
    /\ perf.pc = "done" =>
          \A p \in Pixels :
              IF ZoneOf(p) \in perf.ids
              THEN perf.class[p] =
                      (IF 2 * 100 * perf.ndvi_mean[p] <= perf.p90[ZoneOf(p)]
                       THEN 1 ELSE 2)
              ELSE perf.class[p] = 0

\* two pixels of one zone classed differently against the zone's value, and
\* a pixel of a zone without an entry
C27_Witness ==
    /\ perf.pc = "done"
    /\ \E p \in Pixels : \E q \in Pixels :
          /\ ZoneOf(p) = ZoneOf(q)
          /\ perf.class[p] = 1 /\ perf.class[q] = 2
    /\ \E r \in Pixels : ZoneOf(r) \notin perf.ids /\ perf.class[r] = 0

\* C28: with t_start < lc_year_end the stock series holds one stock per year
\* of [t_start, y] before year y is processed, each step appends
\* stock(y) - annual change, after the last step there is one stock per year
\* of [t_start, lc_year_end], and the percent change is taken from the stock
\* of lc_year_end and the stock of t_start.
C28_OneStockPerYear ==
    [][/\ Len(soc'.soc_images) = soc'.year + 1
       /\ Len(soc'.lc) = soc'.year + 1
       /\ soc'.year <= soc'.n
       /\ soc'.pc = "loop" =>
             /\ soc'.year = soc.year + 1
             /\ soc'.soc_images =
                   Append(soc.soc_images,
                          CellSub(soc.soc_images[Len(soc.soc_images)],
                                  soc'.organic_carbon_change))
       /\ soc'.pc = "done" =>
             /\ soc.year = soc.n
             /\ soc'.soc_images = soc.soc_images
             /\ Len(soc.soc_images) = soc.n + 1
             /\ LET last == soc.soc_images[soc.n + 1]
                    first == soc.soc_images[1]
                IN  soc'.soc_percent_change =
                       CellMul(CellDiv(CellSub(last, first), first),
                               Val(<<100, 1>>))]_vars

\* the end of a period of several year steps in which the stock moved
C28_Witness ==
    /\ soc.pc = "done"
    /\ soc.n >= 2
    /\ Len(soc.soc_images) = soc.n + 1
    /\ soc.soc_percent_change.ok
    /\ soc.soc_percent_change # Val(<<0, 1>>)
    /\ \A i \in 1..soc.n : soc.soc_images[i + 1] # soc.soc_images[i]

\* the land cover changed between the years k and k + 1 and at no other time
ChangedOnceAt(lc, k) ==
    /\ k \in 1..(Len(lc) - 1)
    /\ lc[k] # lc[k + 1]
    /\ \A i \in 1..(Len(lc) - 1) : i # k => lc[i] = lc[i + 1]

\* a times the fraction b
Times(a, b) == RatMul(<<a, 1>>, b)

\* C29: for a pixel whose land cover changes once, between t and t + 1, the
\* annual change is stock(t) x (1 - f) / 20 in the 20 steps in which the years
\* since transition are 1..20 and 0 in every later step, so the stock is
\* stock(t) x f after 20 steps and constant from then on.
C29_LinearOverTwentyYears ==
    \A k \in 1..LongYears :
        (soc.pc \in {"loop", "done"} /\ ChangedOnceAt(soc.lc, k)
            /\ soc.soc_images[k].ok /\ soc.factors[soc.lc_transition].ok) =>
            LET stock == soc.soc_images[k].v
                f == soc.factors[soc.lc_transition].v
                change == RatMul(RatMul(stock, RatSub(<<1, 1>>, f)), <<1, 20>>)
                since == Len(soc.lc) - k
            IN  /\ soc.lc_transition_time = since
                /\ soc.organic_carbon_change =
                      (IF since <= 20 THEN Val(change) ELSE Val(<<0, 1>>))
                /\ \A j \in 1..since :
                      soc.soc_images[k + j] =
                         (IF j <= 20 THEN Val(RatSub(stock, Times(j, change)))
                          ELSE Val(RatMul(stock, f)))

\* 21 years after the one transition: the stock moved to stock(t) x f and
\* stays there
C29_Witness ==
    /\ soc.pc = "loop"
    /\ \E k \in 1..2 :
          /\ ChangedOnceAt(soc.lc, k)
          /\ Len(soc.lc) = k + 21
          /\ soc.soc_images[k].ok /\ soc.soc_images[k].v # <<0, 1>>
          /\ soc.factors[soc.lc_transition].ok
          /\ soc.factors[soc.lc_transition].v # <<1, 1>>
          /\ soc.soc_images[k + 21] = soc.soc_images[k + 20]
          /\ soc.soc_images[k + 20] # soc.soc_images[k + 19]
          /\ soc.organic_carbon_change = Val(<<0, 1>>)

\* C30: every band the classifiers select from the annual index series and
\* from the annual climate series is a band the integration produced for
\* that series, in every sensor branch.
C30_SelectedBandsExist ==
    run.pc \in {"productivity_state", "done"} =>
        /\ run.selected_vi \subseteq run.vi_bands
        /\ run.selected_clim \subseteq run.clim_bands

====
